---- MODULE Spec2Model ----
(***************************************************************************)
(* approute: one Flask route class (AppRouteView) that serves form/HTML    *)
(* clients and JSON clients.  The model follows src/approute/__init__.py:  *)
(* the negotiator _is_json, the notification helper category_response and  *)
(* the four dispatch methods of AppRouteView.                              *)
(*                                                                         *)
(* Representation of Python values:                                        *)
(*   - a str is a sequence of one-character strings, so that "%s|%s" and   *)
(*     str.split("|") are computed character by character;                 *)
(*   - an optional value (None or v) is <<>> or <<v>>;                     *)
(*   - a dict with scalar values is a set of <<key, value>> pairs;         *)
(*   - the envelope dict returned by handle_post is a record of the three  *)
(*     keys the code looks up, each optional (absent key = <<>>);          *)
(*   - a media type is a record [type, subtype], a quality value is in     *)
(*     tenths (q=0.5 is 5).                                                *)
(***************************************************************************)
EXTENDS Integers, Sequences, FiniteSets, TLC

VARIABLES
    request,   \* flask.request of the request being handled
    view,      \* the AppRouteView subclass instance (class attributes)
    pc,        \* position of the request in get()/post()
    cls,       \* value of _is_json() evaluated by get()/post()
    target,    \* dispatch method chosen by get()/post()
    behaviour, \* what the subclass's handle_post/populate did for this request
    call,      \* arguments of the category_response call made by handle_post
    result,    \* dict returned by handle_post (<<>> while none)
    populated, \* mapping returned by populate (<<>> while none)
    flashes,   \* session flash queue: sequence of [channel, text]
    flashes0,  \* the flash queue when the request started
    resp,      \* the response returned to Flask (<<>> while none)
    error      \* exception propagated to Flask (<<>> while none)

vars == <<request, view, pc, cls, target, behaviour, call, result, populated,
          flashes, flashes0, resp, error>>

----------------------------------------------------------------------------
(* Bounds of the model *)

\* longest Accept header (number of media ranges) in the negotiator runs
MaxAccept == 2
\* a new request starts only while the flash queue is shorter than this
MaxFlash == 2

----------------------------------------------------------------------------
(* Python values *)

None == <<>>
Some(v) == <<v>>
IsNone(o) == o = <<>>
Val(o) == o[1]

Mime(t, s) == [type |-> t, subtype |-> s]
APPLICATION_JSON == Mime("application", "json")
TEXT_HTML == Mime("text", "html")

\* MIMETYPES = ["application/json", "text/html"]
MIMETYPES == <<APPLICATION_JSON, TEXT_HTML>>

\* dict.get(key, default) on a dict of <<key, value>> pairs
DictHas(d, k) == \E p \in d : p[1] = k
DictGet(d, k, default) == IF DictHas(d, k) THEN (CHOOSE p \in d : p[1] = k)[2] ELSE default

----------------------------------------------------------------------------
(* werkzeug MIMEAccept, as used through request.accept_mimetypes.  The      *)
(* library is not part of the repository; the operators follow its         *)
(* implementation of Accept / MIMEAccept (specificity-aware best_match).   *)

\* MIMEAccept._specificity: tuple(x != "*" for x in value.split("/")),
\* ranked so that the integer order is the tuple order
Specificity(item) ==
    (IF item.type # "*" THEN 2 ELSE 0) + (IF item.subtype # "*" THEN 1 ELSE 0)

\* MIMEAccept._value_matches(value, item): value from the application,
\* item from the client; "*/not-*" from the client never matches
ValueMatches(value, item) ==
    IF item.type = "*" /\ item.subtype # "*" THEN FALSE
    ELSE \/ (item.type = "*" /\ item.subtype = "*")
         \/ (value.type = "*" /\ value.subtype = "*")
         \/ /\ item.type = value.type
            /\ \/ item.subtype = "*"
               \/ value.subtype = "*"
               \/ item.subtype = value.subtype

\* key of Accept.__init__'s sort: (specificity, quality), compared as a pair
KeyGE(a, b) ==
    \/ Specificity(a.item) > Specificity(b.item)
    \/ Specificity(a.item) = Specificity(b.item) /\ a.q >= b.q

\* stable insertion of x into a list sorted in descending key order
RECURSIVE InsertDesc(_, _)
InsertDesc(x, s) ==
    IF s = <<>> THEN <<x>>
    ELSE IF KeyGE(Head(s), x) THEN <<Head(s)>> \o InsertDesc(x, Tail(s))
    ELSE <<x>> \o s

\* Accept.__init__: sorted(values, key=(specificity, quality), reverse=True)
RECURSIVE SortAccept(_)
SortAccept(values) ==
    IF values = <<>> THEN <<>>
    ELSE InsertDesc(values[Len(values)], SortAccept(SubSeq(values, 1, Len(values) - 1)))

\* Accept._best_single_match: the first client item that matches, or None
RECURSIVE BestSingleMatch(_, _)
BestSingleMatch(accept, match) ==
    IF accept = <<>> THEN None
    ELSE IF ValueMatches(match, Head(accept).item) THEN Some(Head(accept))
    ELSE BestSingleMatch(Tail(accept), match)

\* one iteration of the loop of Accept.best_match over the server items;
\* st = [result, best_quality, best_specificity]
BestMatchStep(accept, server_item, st) ==
    LET m == BestSingleMatch(accept, server_item) IN
    IF IsNone(m) THEN st
    ELSE LET quality == Val(m).q
             specificity == Specificity(Val(m).item) IN
         IF quality <= 0 \/ quality < st.best_quality THEN st
         ELSE IF quality > st.best_quality \/ specificity > st.best_specificity
              THEN [result |-> Some(server_item), best_quality |-> quality,
                    best_specificity |-> specificity]
              ELSE st

RECURSIVE BestMatchLoop(_, _, _)
BestMatchLoop(accept, matches, st) ==
    IF matches = <<>> THEN st
    ELSE BestMatchLoop(accept, Tail(matches), BestMatchStep(accept, Head(matches), st))

\* request.accept_mimetypes.best_match(matches): None when nothing matches
\* (also when the request has no Accept header: the list is empty)
best_match(accept_header, matches) ==
    BestMatchLoop(SortAccept(accept_header), matches,
                  [result |-> None, best_quality |-> -1, best_specificity |-> -1]).result

----------------------------------------------------------------------------
(* The negotiator *)

\* a plausible slip: the Accept header alone decides
is_json_accept_only(req) ==
    best_match(req.accept, MIMETYPES) = Some(APPLICATION_JSON)

\* a plausible slip: anything but an HTML best match counts as JSON
is_json_not_html(req) ==
    IF req.is_json THEN TRUE
    ELSE best_match(req.accept, MIMETYPES) # Some(TEXT_HTML)

\* _is_json()
_is_json(req) ==
    IF req.is_json THEN TRUE
    ELSE LET best == best_match(req.accept, MIMETYPES) IN
         best = Some(APPLICATION_JSON)

----------------------------------------------------------------------------
(* Notifications *)

Envelope(payload, message, status_code) ==
    [payload |-> payload, message |-> message, status_code |-> status_code]

\* the empty dict {} as an envelope: none of the three keys is present
EmptyEnvelope == Envelope(None, None, None)

\* "%s|%s" % (message, category)
Format(message, category) == message \o <<"|">> \o category

\* str.split(sep) for a one-character separator: the list of the parts
RECURSIVE Split(_, _)
Split(s, sep) ==
    IF s = <<>> THEN << <<>> >>
    ELSE LET rest == Split(Tail(s), sep) IN
         IF Head(s) = sep THEN << <<>> >> \o rest
         ELSE << <<Head(s)>> \o Head(rest) >> \o Tail(rest)

success == <<"s", "u", "c", "c", "e", "s", "s">>
warning == <<"w", "a", "r", "n", "i", "n", "g">>
danger == <<"d", "a", "n", "g", "e", "r">>

\* a plausible slip: strict comparisons at the thresholds
Categorize_strict(status_code, category) ==
    IF IsNone(category)
    THEN IF status_code > 500 THEN danger
         ELSE IF status_code > 400 THEN warning
         ELSE success
    ELSE Val(category)

\* the fallback category of category_response
Categorize(status_code, category) ==
    IF IsNone(category)
    THEN IF status_code >= 500 THEN danger
         ELSE IF status_code >= 400 THEN warning
         ELSE success
    ELSE Val(category)

\* flask.flash(message, category): append to the session's queue
flash(fl, text, channel) == Append(fl, [channel |-> channel, text |-> text])

\* a plausible slip: "if payload:" instead of "if payload is not None:"
category_response_truthy(req, fl, message, status_code, category, payload, flash_category) ==
    IF _is_json(req)
    THEN IF ~IsNone(payload) /\ Val(payload) # {}
         THEN [envelope |-> Envelope(payload, None, Some(status_code)), flashes |-> fl]
         ELSE [envelope |-> Envelope(None, Some(message), Some(status_code)), flashes |-> fl]
    ELSE [envelope |-> EmptyEnvelope,
          flashes |-> flash(fl, Format(message, Categorize(status_code, category)),
                            flash_category)]

\* a plausible slip: "if request.is_json:" instead of "if _is_json():"
category_response_content_type(req, fl, message, status_code, category, payload, flash_category) ==
    IF req.is_json
    THEN IF ~IsNone(payload)
         THEN [envelope |-> Envelope(payload, None, Some(status_code)), flashes |-> fl]
         ELSE [envelope |-> Envelope(None, Some(message), Some(status_code)), flashes |-> fl]
    ELSE [envelope |-> EmptyEnvelope,
          flashes |-> flash(fl, Format(message, Categorize(status_code, category)),
                            flash_category)]

\* category_response(message, status_code, category, payload, flash_category)
\* on request req with flash queue fl: the returned dict and the queue after
category_response(req, fl, message, status_code, category, payload, flash_category) ==
    IF _is_json(req)
    THEN IF ~IsNone(payload)
         THEN [envelope |-> Envelope(payload, None, Some(status_code)), flashes |-> fl]
         ELSE [envelope |-> Envelope(None, Some(message), Some(status_code)), flashes |-> fl]
    ELSE [envelope |-> EmptyEnvelope,
          flashes |-> flash(fl, Format(message, Categorize(status_code, category)),
                            flash_category)]

\* response_manager(category): category_response with flash_category fixed
response_manager(channel, req, fl, message, status_code, category, payload) ==
    category_response(req, fl, message, status_code, category, payload, channel)

\* response = response_manager("notification")
response(req, fl, message, status_code, category, payload) ==
    response_manager("notification", req, fl, message, status_code, category, payload)

----------------------------------------------------------------------------
(* Inputs *)

Methods == {"GET", "POST"}

\* media ranges a client sends, and quality values in tenths
MediaRanges == {APPLICATION_JSON, TEXT_HTML, Mime("*", "*"), Mime("text", "*")}
Qualities == {0, 5, 10}
AcceptItems == [item : MediaRanges, q : Qualities]

\* Accept headers of at most n media ranges, in the order the client sent them
RECURSIVE AcceptHeaders(_)
AcceptHeaders(n) ==
    IF n = 0 THEN {<<>>}
    ELSE LET shorter == AcceptHeaders(n - 1) IN
         shorter \cup {Append(h, i) : h \in {x \in shorter : Len(x) = n - 1}, i \in AcceptItems}

Item(m, q) == [item |-> m, q |-> q]

\* the Accept headers of the requests of the full request machine: none,
\* JSON only, HTML only, a browser's wildcard, HTML preferred over JSON
SampleAccepts ==
    { <<>>,
      <<Item(APPLICATION_JSON, 10)>>,
      <<Item(TEXT_HTML, 10)>>,
      <<Item(Mime("*", "*"), 10)>>,
      <<Item(APPLICATION_JSON, 5), Item(TEXT_HTML, 10)>> }

Request(method, isjson, accept) ==
    [method |-> method, is_json |-> isjson, accept |-> accept]

NegotiatorRequests ==
    {Request(m, j, a) : m \in Methods, j \in BOOLEAN, a \in AcceptHeaders(MaxAccept)}

Requests == {Request(m, j, a) : m \in Methods, j \in BOOLEAN, a \in SampleAccepts}

\* AppRouteView subclasses: template_name is declared; redirect_to is None or
\* a route name; route is an attribute only if the subclass defines it (the
\* base class and MethodView define none); endpoint is the name the view is
\* registered under
Views ==
    [template_name : {"start.html"},
     redirect_to : {None, Some("index")},
     redirect_args : {{}},
     route : {None, Some("self")},
     endpoint : {"self"}]

Saved == <<"S", "a", "v", "e", "d">>
Piped == <<"a", "|", "b">>
info == <<"i", "n", "f", "o">>

Messages == {Saved, Piped}
StatusCodes == {200, 399, 400, 499, 500}
Categories == {None, Some(info)}
Payloads == {None, Some({}), Some({<<"id", 7>>})}
Channels == {"notification", "alerts"}

\* arguments of a category_response call
Calls ==
    [message : Messages, status_code : StatusCodes, category : Categories,
     payload : Payloads, flash_category : Channels]

\* dicts a handle_post may return without using category_response
RawEnvelopes ==
    {Envelope(p, m, st) : p \in Payloads, m \in {None, Some(Saved)}, st \in {None, Some(201)}}

\* mappings a populate may return
PopulateOutputs == { {}, {<<"count", 3>>}, {<<"count", 3>>, <<"status_code", 404>>} }

----------------------------------------------------------------------------
(* Responses *)

\* (jsonify(body), status)
JsonResponse(body, status) == [kind |-> "json", body |-> body, status |-> status]

\* render_template(template, **context)
Rendered(template, context) == [kind |-> "html", template |-> template, context |-> context]

\* url_for(endpoint, **values)
url_for(endpoint, values) == [endpoint |-> endpoint, values |-> values]

\* redirect(location)
redirect(location) == [kind |-> "redirect", location |-> location]

\* AppRouteView.get_template_name
get_template_name(v) == v.template_name

no_output == <<"n", "o", " ", "o", "u", "t", "p", "u", "t">>

\* a plausible slip: the message is looked up before the payload
post_json_response_message_first(res) ==
    LET status == IF IsNone(res.status_code) THEN 200 ELSE Val(res.status_code) IN
    IF ~IsNone(res.message)
    THEN JsonResponse({<<"message", Val(res.message)>>}, status)
    ELSE IF ~IsNone(res.payload)
    THEN JsonResponse(Val(res.payload), status)
    ELSE JsonResponse({<<"message", no_output>>}, status)

\* the body and status post_json builds from the dict handle_post returned
post_json_response(res) ==
    LET status == IF IsNone(res.status_code) THEN 200 ELSE Val(res.status_code) IN
    IF ~IsNone(res.payload)
    THEN JsonResponse(Val(res.payload), status)
    ELSE JsonResponse({<<"message", IF IsNone(res.message) THEN no_output
                                    ELSE Val(res.message)>>},
                      status)

\* get(): the method chosen for classification c
get(c) == IF c THEN "get_json" ELSE "get_html"

\* post(): the method chosen for classification c
post(c) == IF c THEN "post_json" ELSE "post_html"

----------------------------------------------------------------------------
(* The request machine *)

Terminals == {"rendered", "redirected", "json_emitted"}
Finished == Terminals \cup {"error"}

Fresh(reqs) ==
    /\ request \in reqs
    /\ pc = "start"
    /\ cls = FALSE
    /\ target = "none"
    /\ behaviour = "none"
    /\ call = None
    /\ result = None
    /\ populated = None
    /\ resp = None
    /\ error = None

Init ==
    /\ Fresh(Requests)
    /\ view \in Views
    /\ flashes = <<>>
    /\ flashes0 = <<>>

\* get()/post() evaluate _is_json()
Negotiate ==
    /\ pc = "start"
    /\ cls' = _is_json(request)
    /\ pc' = "negotiated"
    /\ UNCHANGED <<request, view, target, behaviour, call, result, populated,
                   flashes, flashes0, resp, error>>

\* get()/post() pick the dispatch method
Dispatch ==
    /\ pc = "negotiated"
    /\ target' = IF request.method = "GET" THEN get(cls) ELSE post(cls)
    /\ pc' = "dispatched"
    /\ UNCHANGED <<request, view, cls, behaviour, call, result, populated,
                   flashes, flashes0, resp, error>>

\* get_json
GetJson ==
    /\ pc = "dispatched"
    /\ target = "get_json"
    /\ \E v \in PopulateOutputs :
          /\ populated' = Some(v)
          /\ resp' = Some(JsonResponse(v, DictGet(v, "status_code", 200)))
    /\ behaviour' = "populate"
    /\ pc' = "json_emitted"
    /\ UNCHANGED <<request, view, cls, target, call, result, flashes, flashes0, error>>

\* get_html
GetHtml ==
    /\ pc = "dispatched"
    /\ target = "get_html"
    /\ \E v \in PopulateOutputs :
          /\ populated' = Some(v)
          /\ resp' = Some(Rendered(get_template_name(view), v))
    /\ behaviour' = "populate"
    /\ pc' = "rendered"
    /\ UNCHANGED <<request, view, cls, target, call, result, flashes, flashes0, error>>

\* an exception leaves the method: Flask's error handling takes over
Raise(b, exc) ==
    /\ behaviour' = b
    /\ error' = Some(exc)
    /\ pc' = "error"

\* handle_post of a subclass that returns response(...), a response_manager
\* function or category_response(...) called with the arguments c
HandlePostCall(c) ==
    IF c.flash_category = "notification"
    THEN response(request, flashes, c.message, c.status_code, c.category, c.payload)
    ELSE response_manager(c.flash_category, request, flashes, c.message, c.status_code,
                          c.category, c.payload)

\* the tail of post_json: the response built from handle_post's result
PostJsonReturn(b, env) ==
    /\ behaviour' = b
    /\ result' = Some(env)
    /\ resp' = Some(post_json_response(env))
    /\ pc' = "json_emitted"
    /\ error' = error

\* post_json
PostJson ==
    /\ pc = "dispatched"
    /\ target = "post_json"
    /\ \/ \* request.json: the body parser rejects the body
          /\ Raise("bad_body", "BadRequest")
          /\ UNCHANGED <<call, result, flashes, resp>>
       \/ \* handle_post is not overridden
          /\ Raise("not_overridden", "NotImplementedError")
          /\ UNCHANGED <<call, result, flashes, resp>>
       \/ \E c \in Calls :
             LET r == HandlePostCall(c) IN
             /\ call' = Some(c)
             /\ flashes' = r.flashes
             /\ PostJsonReturn("response", r.envelope)
       \/ \E env \in RawEnvelopes :
             /\ PostJsonReturn("dict", env)
             /\ UNCHANGED <<call, flashes>>
    /\ UNCHANGED <<request, view, cls, target, populated, flashes0>>

\* the tail of post_html: the redirect after handle_post returned
PostHtmlReturn(b, env) ==
    /\ behaviour' = b
    /\ result' = Some(env)
    /\ IF ~IsNone(view.redirect_to)
       THEN /\ resp' = Some(redirect(url_for(Val(view.redirect_to), view.redirect_args)))
            /\ pc' = "redirected"
            /\ error' = error
       ELSE IF IsNone(view.route)
       THEN \* self.route: the attribute does not exist
            /\ resp' = resp
            /\ pc' = "error"
            /\ error' = Some("AttributeError")
       ELSE /\ resp' = Some(redirect(url_for(Val(view.route), view.redirect_args)))
            /\ pc' = "redirected"
            /\ error' = error

\* post_html
PostHtml ==
    /\ pc = "dispatched"
    /\ target = "post_html"
    /\ \/ \* handle_post is not overridden
          /\ Raise("not_overridden", "NotImplementedError")
          /\ UNCHANGED <<call, result, flashes, resp>>
       \/ \E c \in Calls :
             LET r == HandlePostCall(c) IN
             /\ call' = Some(c)
             /\ flashes' = r.flashes
             /\ PostHtmlReturn("response", r.envelope)
       \/ \E env \in RawEnvelopes :
             /\ PostHtmlReturn("dict", env)
             /\ UNCHANGED <<call, flashes>>
    /\ UNCHANGED <<request, view, cls, target, populated, flashes0>>

\* the response (or the error page) is sent and the request context is
\* torn down: what the request left behind is the session's flash queue
Teardown ==
    /\ pc \in Finished
    /\ pc' = "idle"
    /\ cls' = FALSE
    /\ target' = "none"
    /\ behaviour' = "none"
    /\ call' = None
    /\ result' = None
    /\ populated' = None
    /\ resp' = None
    /\ error' = None
    /\ flashes0' = flashes
    /\ UNCHANGED <<request, view, flashes>>

\* the next request of the session arrives at the same view
NextRequest ==
    /\ pc = "idle"
    /\ Len(flashes) < MaxFlash
    /\ request' \in Requests
    /\ pc' = "start"
    /\ UNCHANGED <<view, cls, target, behaviour, call, result, populated,
                   flashes, flashes0, resp, error>>

Next ==
    \/ Negotiate \/ Dispatch
    \/ GetJson \/ GetHtml \/ PostJson \/ PostHtml
    \/ Teardown \/ NextRequest

Spec == Init /\ [][Next]_vars

\* The negotiator alone, over every Accept header of at most MaxAccept ranges
InitNegotiator ==
    /\ Fresh(NegotiatorRequests)
    /\ view \in Views
    /\ flashes = <<>>
    /\ flashes0 = <<>>

NextNegotiator == Negotiate \/ Dispatch

SpecNegotiator == InitNegotiator /\ [][NextNegotiator]_vars

----------------------------------------------------------------------------
(* Properties *)

\* handle_post returned the dict of a category_response call in this request
Responded == behaviour = "response"

\* the arguments of that call
TheCall == Val(call)

\* the category a notification of that call carries
ExpectedCategory ==
    IF ~IsNone(TheCall.category) THEN Val(TheCall.category)
    ELSE IF TheCall.status_code >= 500 THEN danger
    ELSE IF TheCall.status_code >= 400 THEN warning
    ELSE success

\* C1: a request whose Content-Type declares JSON is classified as JSON
\* whatever its Accept header is, and is dispatched to a JSON method.
C1_ContentTypeWins ==
    (pc # "start" /\ request.is_json) =>
        /\ cls
        /\ pc = "dispatched" => target \in {"get_json", "post_json"}

C1_Witness ==
    /\ pc = "negotiated"
    /\ request.is_json
    /\ request.accept = <<Item(APPLICATION_JSON, 0), Item(TEXT_HTML, 10)>>
    /\ cls

\* C2: without a JSON content type the classification is JSON iff the best
\* match of the Accept header against [application/json, text/html] is
\* application/json; Accept: application/json alone gives JSON, Accept:
\* text/html alone gives HTML, no Accept header gives HTML.
C2_AcceptDecides ==
    (pc # "start" /\ ~request.is_json) =>
        /\ cls = (best_match(request.accept, MIMETYPES) = Some(APPLICATION_JSON))
        /\ (\E q \in Qualities \ {0} : request.accept = <<Item(APPLICATION_JSON, q)>>) => cls
        /\ (\E q \in Qualities : request.accept = <<Item(TEXT_HTML, q)>>) => ~cls
        /\ request.accept = <<>> => ~cls

C2_Witness ==
    /\ pc = "negotiated"
    /\ ~request.is_json
    /\ request.accept = <<Item(TEXT_HTML, 5), Item(APPLICATION_JSON, 10)>>
    /\ cls

\* C3: an HTML write whose handle_post returned ends in a redirect, whatever
\* handle_post returned.
C3_HtmlWriteRedirects ==
    (target = "post_html" /\ pc \in Finished /\ ~IsNone(result)) =>
        /\ pc = "redirected"
        /\ ~IsNone(resp)
        /\ Val(resp).kind = "redirect"

\* C4: in JSON mode category_response returns exactly {payload, status_code}
\* when a payload was given (an empty one included) and exactly
\* {message, status_code} otherwise, and leaves the flash queue unchanged.
C4_JsonModeEnvelope ==
    (Responded /\ _is_json(request)) =>
        /\ result = Some(IF ~IsNone(TheCall.payload)
                         THEN Envelope(TheCall.payload, None, Some(TheCall.status_code))
                         ELSE Envelope(None, Some(TheCall.message), Some(TheCall.status_code)))
        /\ flashes = flashes0

C4_Witness ==
    /\ Responded
    /\ _is_json(request)
    /\ TheCall.payload = Some({})
    /\ ~IsNone(TheCall.category)
    /\ TheCall.flash_category = "alerts"
    /\ Len(flashes0) = 1
    /\ result = Some(Envelope(Some({}), None, Some(500)))

\* C5: in HTML mode category_response appends exactly one notification
\* "message|category" on the channel flash_category and returns {}; the
\* category is the explicit one, else danger from 500, warning from 400 to
\* 499, success below 400.
C5_HtmlModeNotification ==
    (Responded /\ ~_is_json(request)) =>
        /\ result = Some(EmptyEnvelope)
        /\ flashes = Append(flashes0,
                            [channel |-> TheCall.flash_category,
                             text |-> TheCall.message \o <<"|">> \o ExpectedCategory])

C5_Witness ==
    /\ Responded
    /\ ~_is_json(request)
    /\ TheCall.status_code = 500
    /\ IsNone(TheCall.category)
    /\ ~IsNone(TheCall.payload)
    /\ Len(flashes0) = 1
    /\ flashes[2] = [channel |-> "alerts", text |-> Saved \o <<"|">> \o danger]

\* C6: after an HTML write that was redirected, the string queued by
\* category_response, split on "|", is exactly the original message and the
\* original category.
C6_RoundTrip ==
    (Responded /\ ~_is_json(request) /\ pc = "redirected") =>
        Split(flashes[Len(flashes)].text, "|") = <<TheCall.message, ExpectedCategory>>

\* C7: after an HTML write whose handle_post returned, the response is a
\* redirect to url_for(redirect_to, redirect_args) when redirect_to is set and
\* to the view's own route when it is not.
C7_RedirectTarget ==
    (target = "post_html" /\ pc \in Finished /\ ~IsNone(result)) =>
        resp = Some(redirect(url_for(IF ~IsNone(view.redirect_to)
                                     THEN Val(view.redirect_to)
                                     ELSE view.endpoint,
                                     view.redirect_args)))

\* C8: a JSON write whose handle_post returned a dict answers with the dict's
\* payload when it has one (even beside a message), else with {message: ...}
\* of the dict's message ("no output" when it has none); the status is the
\* dict's status_code, 200 when it has none.
C8_JsonWriteShape ==
    (target = "post_json" /\ ~IsNone(result)) =>
        LET res == Val(result) IN
        /\ pc = "json_emitted"
        /\ ~IsNone(resp)
        /\ Val(resp).kind = "json"
        /\ Val(resp).body = IF ~IsNone(res.payload) THEN Val(res.payload)
                            ELSE IF ~IsNone(res.message)
                            THEN {<<"message", Val(res.message)>>}
                            ELSE {<<"message", no_output>>}
        /\ Val(resp).status = IF ~IsNone(res.status_code) THEN Val(res.status_code) ELSE 200

C8_Witness ==
    /\ pc = "json_emitted"
    /\ target = "post_json"
    /\ result = Some(Envelope(Some({<<"id", 7>>}), Some(Saved), None))
    /\ resp = Some(JsonResponse({<<"id", 7>>}, 200))

\* the terminal state of a request by method and classification
ExpectedTerminal ==
    IF cls THEN "json_emitted"
    ELSE IF request.method = "GET" THEN "rendered"
    ELSE "redirected"

\* C9: a request that is over, and did not fail in handle_post or in the
\* body parser, is in the one terminal state its method and classification
\* determine, with one response artifact of that kind.
C9_OneTerminal ==
    (pc \in Finished /\ error \notin {Some("NotImplementedError"), Some("BadRequest")}) =>
        /\ pc = ExpectedTerminal
        /\ ~IsNone(resp)
        /\ Val(resp).kind = (IF pc = "json_emitted" THEN "json"
                             ELSE IF pc = "rendered" THEN "html" ELSE "redirect")

\* C10: post() and category_response classify the request alike: after a
\* handle_post that returns response(...), a JSON-dispatched write has queued
\* nothing and answers the payload or {message: the message}; an
\* HTML-dispatched write has queued exactly one notification and got {}.
C10_SameClassification ==
    Responded =>
        /\ cls = _is_json(request)
        /\ target = "post_json" =>
              /\ flashes = flashes0
              /\ Val(resp).body = IF ~IsNone(TheCall.payload) THEN Val(TheCall.payload)
                                  ELSE {<<"message", TheCall.message>>}
              /\ Val(resp).status = TheCall.status_code
        /\ target = "post_html" =>
              /\ Len(flashes) = Len(flashes0) + 1
              /\ result = Some(EmptyEnvelope)
              /\ pc = "redirected" => Val(resp).kind = "redirect"

C10_Witness ==
    /\ Responded
    /\ target = "post_json"
    /\ ~request.is_json
    /\ IsNone(TheCall.payload)
    /\ Len(flashes0) = 1
    /\ flashes = flashes0
    /\ Val(resp).body = {<<"message", Piped>>}

====
